---- MODULE Spec2Model ----
(***************************************************************************)
(* Model of the dashboard variable loader of                               *)
(* web/src/components/dashboards/VariablesValueSelector.vue.               *)
(*                                                                         *)
(* One TLA+ step is one JavaScript task: an event handler (or the          *)
(* continuation of an awaited call) run to completion, followed by the     *)
(* promise reactions (.then / .catch handlers) it queued, in FIFO order.   *)
(***************************************************************************)
EXTENDS Integers, Sequences, FiniteSets, TLC

VARIABLES
    cfg,         \* props.variablesConfig.list
    backend,     \* what streamService.fieldValues answers, by variable name
    timeValid,   \* props.selectedTimeDate holds two valid dates
    value,       \* variablesData.values[i].value
    options,     \* variablesData.values[i].options
    isLoading,   \* variablesData.values[i].isLoading
    isPending,   \* variablesData.values[i].isVariableLoadingPending
    ivl,         \* variablesData.isVariablesLoading
    old,         \* oldVariablesData, by variable name
    handle,      \* currentlyExecutingPromises, by variable name
    loads,       \* the executors of loadSingleVariableDataByIndex that are awaiting
    events,      \* number of external events handled so far
    edited,      \* history: the last selection the user made, by variable name
    last         \* history: the task that produced this state

vars == <<cfg, backend, timeValid, value, options, isLoading, isPending, ivl, old,
          handle, loads, events, edited, last>>

----------------------------------------------------------------------------
\* Bounds of the model

\* Executors that may be awaiting at the same time.
MaxLoads == 2

\* External events (user edits, time-range changes) in one behaviour.
MaxEvents == 2

Slots == 1..MaxLoads

----------------------------------------------------------------------------
\* Values

\* JavaScript null and undefined, as elements of the atom domain.
NULL == "null"
UNDEF == "undefined"

Arr(s) == [arr |-> TRUE, items |-> s]
Scalar(a) == [arr |-> FALSE, items |-> <<a>>]
Null == Scalar(NULL)
Undefined == Scalar(UNDEF)

\* JavaScript truthiness of a value: arrays are truthy, null, undefined and
\* the empty string are not.
Truthy(v) == v.arr \/ v.items[1] \notin {NULL, UNDEF, ""}

InSeq(x, s) == \E k \in 1..Len(s) : s[k] = x

Opt(v) == [value |-> v, selected |-> FALSE]

----------------------------------------------------------------------------
\* Configuration

Names == {"a", "b", "c", "d"}

QueryVar(n, multi, refs) ==
    [name |-> n, type |-> "query_values", multiSelect |-> multi,
     selectAll |-> "none", custom |-> <<>>, refs |-> refs,
     options |-> <<>>, value |-> Null]

\* a <- b : b's filter holds the token $a; b is multi-select.
PairConfig ==
    << QueryVar("a", FALSE, {}), QueryVar("b", TRUE, {"a"}) >>

\* a <- b <- c : c's filter holds the token $b; c is multi-select.
ChainConfig ==
    << QueryVar("a", FALSE, {}), QueryVar("b", FALSE, {"a"}),
       QueryVar("c", TRUE, {"b"}) >>

\* a <- b, and d unrelated to both.
ForkConfig ==
    << QueryVar("a", FALSE, {}), QueryVar("b", FALSE, {"a"}),
       QueryVar("d", TRUE, {}) >>

\* a <- c and b <- c : c's filter holds the tokens $a and $b.
JoinConfig ==
    << QueryVar("a", FALSE, {}), QueryVar("b", FALSE, {}),
       QueryVar("c", TRUE, {"a", "b"}) >>

\* d <- a, a <- b and b <- a : a's filter holds the tokens $d and $b, b's
\* filter holds the token $a.
CycleConfig ==
    << QueryVar("d", FALSE, {}), QueryVar("a", FALSE, {"d", "b"}),
       QueryVar("b", FALSE, {"a"}) >>

\* A constant named n with the value v of its configuration.
ConstantVar(n, v) ==
    [name |-> n, type |-> "constant", multiSelect |-> FALSE,
     selectAll |-> "none", custom |-> <<>>, refs |-> {},
     options |-> <<>>, value |-> v]

\* c <- d : c is a constant, d's filter holds the token $c; a is unrelated.
ConstantConfig ==
    << ConstantVar("c", Scalar("k")), QueryVar("d", FALSE, {"c"}),
       QueryVar("a", TRUE, {}) >>

Vars == 1..Len(cfg)

NameOf(i) == cfg[i].name

\* buildVariablesDependencyGraph: an edge from every referenced variable
\* to the variable whose query references it.
parentVariables(i) == {p \in Vars : NameOf(p) \in cfg[i].refs}
childVariables(i) == {c \in Vars : NameOf(i) \in cfg[c].refs}

----------------------------------------------------------------------------
\* Reconciliation of a selection against an option list

OptionValues(opts) == [k \in 1..Len(opts) |-> opts[k].value]

\* Array.prototype.find on option.value; UNDEF when nothing matches.
FindValue(opts, x) ==
    IF \E k \in 1..Len(opts) : opts[k].value = x
    THEN opts[CHOOSE k \in 1..Len(opts) :
                /\ opts[k].value = x
                /\ \A j \in 1..(k - 1) : opts[j].value # x].value
    ELSE UNDEF

\* Faulty variant: the last element is read instead of the first.
LastOf(s) == IF Len(s) > 0 THEN s[Len(s)] ELSE UNDEF

\* s[1] of a JavaScript array: undefined when the array is empty.
FirstOf(s) == IF Len(s) > 0 THEN s[1] ELSE UNDEF

\* The old selection as an array: [] for a falsy snapshot entry.
OldVariableSelectedValues(o) ==
    IF Truthy(o) THEN (IF o.arr THEN o.items ELSE <<o.items[1]>>) ELSE <<>>

\* handleQueryValuesLogic reads options[0].value of an empty option list.
QueryValuesLogicThrows(c, opts, oldSel) ==
    /\ c.multiSelect
    /\ Len(opts) = 0
    /\ c.selectAll \notin {"custom", "all"}

\* Faulty variant: a multi-select with no surviving selection always takes
\* the first option, whatever selectAllValueForMultiSelect says.
QueryValuesLogicIgnoresPolicy(c, opts, oldSel) ==
    IF c.multiSelect
    THEN LET kept == SelectSeq(OptionValues(opts), LAMBDA x : InSeq(x, oldSel))
         IN  IF Len(kept) > 0 THEN Arr(kept)
             ELSE Arr(<<FirstOf(OptionValues(opts))>>)
    ELSE Scalar(FirstOf(OptionValues(opts)))

\* Faulty variant: case "all" falls through to the filter of case "custom".
QueryValuesLogicAllAsCustom(c, opts, oldSel) ==
    LET optionsValues == OptionValues(opts)
        kept == SelectSeq(optionsValues, LAMBDA x : InSeq(x, oldSel))
        oldValue == FindValue(opts, FirstOf(oldSel))
    IN  IF c.multiSelect
        THEN IF Len(kept) > 0
             THEN Arr(kept)
             ELSE IF c.selectAll \in {"custom", "all"}
                  THEN Arr(SelectSeq(optionsValues,
                                     LAMBDA x : InSeq(x, c.custom)))
                  ELSE Arr(<<FirstOf(optionsValues)>>)
        ELSE IF Truthy(Scalar(oldValue))
             THEN Scalar(oldValue)
             ELSE IF Len(opts) > 0 THEN Scalar(optionsValues[1]) ELSE Null

handleQueryValuesLogic(c, opts, oldSel) ==
    LET optionsValues == OptionValues(opts) IN
    IF c.multiSelect
    THEN LET selectedValues ==
                 SelectSeq(optionsValues, LAMBDA x : InSeq(x, oldSel))
         IN  IF Len(selectedValues) > 0
             THEN Arr(selectedValues)
             ELSE CASE c.selectAll = "custom" ->
                          Arr(SelectSeq(optionsValues,
                                        LAMBDA x : InSeq(x, c.custom)))
                    [] c.selectAll = "all" -> Arr(optionsValues)
                    [] OTHER -> Arr(<<optionsValues[1]>>)
    ELSE LET oldValue == FindValue(opts, FirstOf(oldSel)) IN
         IF Truthy(Scalar(oldValue))
         THEN Scalar(oldValue)
         ELSE IF Len(opts) > 0
              THEN IF c.selectAll = "custom"
                   THEN LET customValue == FindValue(opts, FirstOf(c.custom))
                        IN  IF customValue \in {UNDEF, NULL}
                            THEN Scalar(optionsValues[1])
                            ELSE Scalar(customValue)
                   ELSE Scalar(optionsValues[1])
              ELSE Null

\* Faulty variant: the old selection is not looked at.
CustomVariablesLogicIgnoresOld(c, opts, oldSel) ==
    LET selectedOptionsValues ==
            OptionValues(SelectSeq(opts, LAMBDA o : o.selected))
        chosen == IF Len(selectedOptionsValues) > 0
                  THEN selectedOptionsValues
                  ELSE <<FirstOf(OptionValues(opts))>>
    IN  IF c.multiSelect
        THEN Arr(chosen)
        ELSE IF Len(opts) > 0 THEN Scalar(chosen[1]) ELSE Null

\* Faulty variant: the options flagged as selected win over the old
\* selection.
CustomVariablesLogicFlagsFirst(c, opts, oldSel) ==
    LET flagged == OptionValues(SelectSeq(opts, LAMBDA o : o.selected))
        kept == SelectSeq(OptionValues(opts), LAMBDA x : InSeq(x, oldSel))
        chosen == IF Len(flagged) > 0 THEN flagged
                  ELSE IF Len(kept) > 0 THEN kept
                  ELSE <<FirstOf(OptionValues(opts))>>
    IN  IF c.multiSelect
        THEN Arr(chosen)
        ELSE IF Len(opts) > 0 THEN Scalar(chosen[1]) ELSE Null

handleCustomVariablesLogic(c, opts, oldSel) ==
    LET selectedOptionsValues ==
            OptionValues(SelectSeq(opts, LAMBDA o : o.selected))
    IN
    IF c.multiSelect
    THEN LET selectedValues ==
                 SelectSeq(OptionValues(opts), LAMBDA x : InSeq(x, oldSel))
         IN  IF Len(selectedValues) > 0
             THEN Arr(selectedValues)
             ELSE IF Len(selectedOptionsValues) > 0
                  THEN Arr(selectedOptionsValues)
                  ELSE Arr(<<FirstOf(OptionValues(opts))>>)
    ELSE LET oldValue == FindValue(opts, FirstOf(oldSel)) IN
         IF Truthy(Scalar(oldValue))
         THEN Scalar(oldValue)
         ELSE IF Len(opts) > 0
              THEN IF Len(selectedOptionsValues) > 0
                   THEN Scalar(selectedOptionsValues[1])
                   ELSE Scalar(opts[1].value)
              ELSE Null

----------------------------------------------------------------------------
\* Promises and their reject handles

\* currentlyExecutingPromises[name] is null, or the reject function of a
\* promise that is already settled, or the reject function of the promise
\* of the executor in slot k (k > 0).
NoHandle == 0
SettledHandle == -1

\* A load is one run of the executor of loadSingleVariableDataByIndex that
\* reached an await.  st: where it waits ("labels": addLabelsToSQlQuery,
\* "fetch": streamService.fieldValues).  prom: the state of its promise
\* ("pending", "cancelled": rejected through its handle, "aborted":
\* resolve(false) in the substitution loop, "fulfilled": resolve(true)).
\* superseded (history): a later load was started for the same variable.
\* q: the query context of the fetch, as the pairs of a referenced name and
\* what stands in its place.  detached: currentVariable of the executor is
\* an object of a list that initializeVariablesData has replaced since.
\* stale (history): props.selectedTimeDate was replaced after the load was
\* started.
NoLoad ==
    [v |-> 0, st |-> "none", prom |-> "none", superseded |-> FALSE, q |-> {},
     detached |-> FALSE, stale |-> FALSE]

\* The program state a handler works on, with the queue of promise
\* reaction jobs.  ok: a slot was found for every load the task started.
State ==
    [timeValid |-> timeValid, value |-> value, options |-> options,
     isLoading |-> isLoading, isPending |-> isPending, ivl |-> ivl,
     old |-> old, handle |-> handle, loads |-> loads,
     jobs |-> <<>>, ok |-> TRUE]

\* currentlyExecutingPromises[nm](false): rejecting a settled promise does
\* nothing; rejecting a pending one queues the reaction of .then(), which
\* passes the rejection on to .catch().
RejectHandle(S, nm) ==
    LET h == S.handle[nm] IN
    IF h \in Slots /\ S.loads[h].prom = "pending"
    THEN [S EXCEPT !.loads[h].prom = "cancelled",
                   !.jobs = Append(@, [k |-> "reject", v |-> S.loads[h].v])]
    ELSE S

\* resolve(true) of a promise that is settled synchronously.
ResolveTrue(S, i) == [S EXCEPT !.jobs = Append(@, [k |-> "then", v |-> i])]

\* Faulty variant: the check walks the children of the variable, not its parents.
ParentCheckWalksChildren(S, i) ==
    \E p \in childVariables(i) : S.isLoading[p] \/ S.isPending[p]

isAnyDepndentVariableLoadingPending(S, i) ==
    \E p \in parentVariables(i) : S.isLoading[p] \/ S.isPending[p]

\* case "query_values", up to await addLabelsToSQlQuery.
\* The executor takes a slot that is empty or whose executor has ended.
StartQueryValues(S, i) ==
    LET free == {k \in Slots : S.loads[k].st \in {"none", "done"}} IN
    IF free = {}
    THEN [S EXCEPT !.ok = FALSE]
    ELSE LET id == CHOOSE k \in free : \A j \in free : k <= j IN
         [S EXCEPT
            !.isLoading[i] = TRUE,
            !.handle[NameOf(i)] = id,
            !.loads = [k \in Slots |->
                         IF k = id
                         THEN [v |-> i, st |-> "labels", prom |-> "pending",
                               superseded |-> FALSE, q |-> {},
                               detached |-> FALSE, stale |-> FALSE]
                         ELSE IF @[k].v = i
                              THEN [@[k] EXCEPT !.superseded = TRUE]
                              ELSE @[k]]]

\* case "custom": synchronous.
LoadCustom(S, i) ==
    ResolveTrue(
        [S EXCEPT !.value[i] =
            handleCustomVariablesLogic(
                cfg[i], S.options[i],
                OldVariableSelectedValues(S.old[NameOf(i)]))],
        i)

\* Faulty variant: the time range is not checked before a load.
EligibleIgnoresTime(S, i) ==
    /\ S.isPending[i]
    /\ ~isAnyDepndentVariableLoadingPending(S, i)

\* The eligibility checks of loadSingleVariableDataByIndex.
Eligible(S, i) ==
    /\ S.isPending[i]
    /\ S.timeValid
    /\ ~isAnyDepndentVariableLoadingPending(S, i)

\* The executor of loadSingleVariableDataByIndex up to its first await.
loadSingleVariableDataByIndex(S, i) ==
    LET nm == NameOf(i)
        S1 == RejectHandle(S, nm)
        S2 == [S1 EXCEPT !.handle[nm] = SettledHandle]
    IN  IF ~Eligible(S2, i)
        THEN S2
        ELSE CASE cfg[i].type = "query_values" -> StartQueryValues(S2, i)
               [] cfg[i].type = "custom" -> LoadCustom(S2, i)
               [] OTHER -> ResolveTrue(S2, i)

\* Promise.all(indices.map(loadSingleVariableDataByIndex)), in index order.
RECURSIVE LoadEach(_, _, _)
LoadEach(S, k, set) ==
    IF k > Len(cfg)
    THEN S
    ELSE LoadEach(IF k \in set THEN loadSingleVariableDataByIndex(S, k) ELSE S,
                  k + 1, set)

\* Faulty variant: the .then handler does not load the children.
CommitWithoutChildren(S, i) ==
    LET S1 == [S EXCEPT !.handle[NameOf(i)] = NoHandle,
                        !.old[NameOf(i)] = S.value[i],
                        !.isLoading[i] = FALSE,
                        !.isPending[i] = FALSE]
    IN  [S1 EXCEPT !.ivl =
            \E v \in Vars : S1.isLoading[v] \/ S1.isPending[v]]

\* Faulty variant: the .then handler loads every variable, not the children.
CommitLoadsEveryVariable(S, i) ==
    LET nm == NameOf(i)
        S1 == [S EXCEPT !.handle[nm] = NoHandle,
                        !.old[nm] = S.value[i],
                        !.isLoading[i] = FALSE,
                        !.isPending[i] = FALSE]
        S2 == [S1 EXCEPT !.ivl =
                  \E v \in Vars : S1.isLoading[v] \/ S1.isPending[v]]
    IN  LoadEach(S2, 1, Vars)

\* Faulty variant: the .then handler loads the children only when no other
\* variable is loading.
CommitCascadesWhenIdle(S, i) ==
    LET nm == NameOf(i)
        S1 == [S EXCEPT !.handle[nm] = NoHandle,
                        !.old[nm] = S.value[i],
                        !.isLoading[i] = FALSE,
                        !.isPending[i] = FALSE]
        S2 == [S1 EXCEPT !.ivl =
                  \E v \in Vars : S1.isLoading[v] \/ S1.isPending[v]]
    IN  IF \E v \in Vars : S1.isLoading[v]
        THEN S2
        ELSE LoadEach(S2, 1, childVariables(i))

\* The .then handler, for res = true.
Commit(S, i) ==
    LET nm == NameOf(i)
        S1 == [S EXCEPT !.handle[nm] = NoHandle,
                        !.old[nm] = S.value[i],
                        !.isLoading[i] = FALSE,
                        !.isPending[i] = FALSE]
        S2 == [S1 EXCEPT !.ivl =
                  \E v \in Vars : S1.isLoading[v] \/ S1.isPending[v]]
    IN  LoadEach(S2, 1, childVariables(i))

\* Faulty variant: the .catch handler leaves isLoading as it is.
CatchKeepsLoading(S, i) ==
    [S EXCEPT !.handle[NameOf(i)] = NoHandle]

\* The .catch handler.
Catch(S, i) ==
    [S EXCEPT !.handle[NameOf(i)] = NoHandle, !.isLoading[i] = FALSE]

RunJob(S, j) ==
    CASE j.k = "then" -> Commit(S, j.v)
      [] j.k = "reject" -> [S EXCEPT !.jobs = Append(@, [k |-> "catch", v |-> j.v])]
      [] j.k = "catch" -> Catch(S, j.v)

\* The promise reaction jobs, in FIFO order, until none is left.
RECURSIVE Drain(_)
Drain(S) ==
    IF S.jobs = <<>>
    THEN S
    ELSE Drain(RunJob([S EXCEPT !.jobs = Tail(@)], Head(S.jobs)))

----------------------------------------------------------------------------
\* Handlers

\* The responses of streamService.fieldValues: a rejected request ("fail"),
\* no hits ("empty"), or hits whose values map to an option list.
FetchedOptionLists == { <<Opt("x"), Opt("y")>> }

Outcomes ==
    {[kind |-> "fail", opts |-> <<>>], [kind |-> "empty", opts |-> <<>>]}
    \cup {[kind |-> "hits", opts |-> o] : o \in FetchedOptionLists}

\* The backend is not fixed: every response is possible at every fetch.
Free == <<>>

\* catch (err) of case "query_values".
FetchFailed(S, i) ==
    [S EXCEPT !.value[i] = Null, !.options[i] = <<>>]

\* res.data.hits.length is 0.
FetchEmpty(S, i) ==
    [S EXCEPT !.value[i] = IF cfg[i].multiSelect THEN Arr(<<>>) ELSE Null,
              !.options[i] = <<>>]

\* res.data.hits.length is not 0: the options are set and the selection is
\* reconciled with the old one; a TypeError ends in catch (err).
FetchHits(S, i, opts) ==
    LET oldSel == OldVariableSelectedValues(S.old[NameOf(i)]) IN
    IF QueryValuesLogicThrows(cfg[i], opts, oldSel)
    THEN FetchFailed(S, i)
    ELSE [S EXCEPT !.options[i] = opts,
                   !.value[i] = handleQueryValuesLogic(cfg[i], opts, oldSel)]

\* Faulty variant: the result is committed whatever the state of the promise.
ResolveExecutorAlways(S, id) ==
    [S EXCEPT !.loads[id].prom = IF @ = "pending" THEN "fulfilled" ELSE @,
              !.loads[id].st = "done",
              !.jobs = Append(@, [k |-> "then", v |-> S.loads[id].v])]

\* resolve(true) at the end of the executor in slot id, which is done.
ResolveExecutor(S, id) ==
    IF S.loads[id].prom = "pending"
    THEN [S EXCEPT !.loads[id].prom = "fulfilled",
                   !.loads[id].st = "done",
                   !.jobs = Append(@, [k |-> "then", v |-> S.loads[id].v])]
    ELSE [S EXCEPT !.loads[id].st = "done"]

\* The executor in slot id after await streamService.fieldValues.
AfterFetch(S, id, out) ==
    LET i == S.loads[id].v
        S1 == CASE S.loads[id].detached -> S
                [] out.kind = "fail" -> FetchFailed(S, i)
                [] out.kind = "empty" -> FetchEmpty(S, i)
                [] OTHER -> FetchHits(S, i, out.opts)
    IN  ResolveExecutor(S1, id)

\* The substitution loop finds the token of a variable that is not loaded.
HasUnresolvedToken(S, i) ==
    \E u \in Vars : /\ NameOf(u) \in cfg[i].refs
                    /\ (S.isLoading[u] \/ S.isPending[u])

\* A token that was left in the query.
Unsubstituted == Scalar("$")

\* Faulty variant: no token is replaced.
QueryContextKeepsTokens(S, i) ==
    {<<n, Unsubstituted>> : n \in cfg[i].refs}

\* The query after the substitution loop: the token of a variable that is
\* loaded is replaced by its value, the token of any other is left.
QueryContext(S, i) ==
    {<<NameOf(u), IF S.isLoading[u] \/ S.isPending[u]
                  THEN Unsubstituted
                  ELSE S.value[u]>> :
        u \in {w \in Vars : NameOf(w) \in cfg[i].refs}}

\* The loop body's else-if branch: resolve(false), and the loop goes on.
AbortUnresolved(S, id) ==
    LET i == S.loads[id].v IN
    [S EXCEPT !.isLoading[i] = IF S.loads[id].detached THEN @ ELSE FALSE,
              !.isPending[i] = IF S.loads[id].detached THEN @ ELSE TRUE,
              !.loads[id].prom = IF @ = "pending" THEN "aborted" ELSE @]

\* The executor in slot id after await addLabelsToSQlQuery, up to await
\* streamService.fieldValues.  throws: toISOString() of an invalid date
\* raises a RangeError, which ends in catch (err).
AfterLabels(S, id, throws) ==
    LET i == S.loads[id].v
        S1 == IF HasUnresolvedToken(S, i) THEN AbortUnresolved(S, id) ELSE S
    IN  IF throws
        THEN ResolveExecutor(
                 IF S.loads[id].detached THEN S1 ELSE FetchFailed(S1, i), id)
        ELSE [S1 EXCEPT !.loads[id].st = "fetch",
                        !.loads[id].q = QueryContext(S, i)]

\* Faulty variant: only the direct children are marked.
MarkDirectChildrenOnly(pend, i) ==
    [v \in Vars |-> pend[v] \/ v \in childVariables(i)]

\* Faulty variant: every variable is marked, as loadAllVariablesData does.
MarkEveryVariable(pend, i) == [v \in Vars |-> TRUE]

\* The loop of setLoadingStateToAllChildNode over the children rest, with
\* its recursive calls.  The function keeps no record of the variables it
\* has visited: a chain of calls longer than the number of variables repeats
\* one of them and never ends, so it is cut at that depth and reported as
\* the RangeError of the exhausted call stack (over), which ends the loops
\* of all the callers.
RECURSIVE MarkChildNodes(_, _, _)
MarkChildNodes(M, rest, depth) ==
    IF M.over \/ rest = {}
    THEN M
    ELSE LET c == CHOOSE x \in rest : TRUE
             M1 == [M EXCEPT !.pend[c] = TRUE]
             M2 == IF depth = 0
                   THEN [M1 EXCEPT !.over = TRUE]
                   ELSE MarkChildNodes(M1, childVariables(c), depth - 1)
         IN  MarkChildNodes(M2, rest \ {c}, depth)

\* setLoadingStateToAllChildNode: marks the children, and theirs.
setLoadingStateToAllChildNode(pend, i) ==
    MarkChildNodes([pend |-> pend, over |-> FALSE],
                   childVariables(i), Len(cfg)).pend

\* setLoadingStateToAllChildNode(i) exhausts the call stack.
MarkingOverflows(i) ==
    MarkChildNodes([pend |-> [v \in Vars |-> FALSE], over |-> FALSE],
                   childVariables(i), Len(cfg)).over

\* Faulty variant: an edit marks the descendants pending and loads nothing.
OnUpdateMarksOnly(S, i, nv) ==
    LET S1 == [S EXCEPT !.value[i] = nv, !.old[NameOf(i)] = nv]
    IN  [S1 EXCEPT !.isPending =
            setLoadingStateToAllChildNode(S1.isPending, i)]

\* onVariablesValueUpdated(i), after v-model stored the new value nv.
onVariablesValueUpdated(S, i, nv) ==
    LET S1 == [S EXCEPT !.value[i] = nv, !.old[NameOf(i)] = nv]
        S2 == [S1 EXCEPT !.isPending =
                  setLoadingStateToAllChildNode(S1.isPending, i)]
    IN  IF MarkingOverflows(i) THEN S2 ELSE LoadEach(S2, 1, Vars)

RECURSIVE RejectEach(_, _)
RejectEach(S, k) ==
    IF k > Len(cfg) THEN S ELSE RejectEach(RejectHandle(S, NameOf(k)), k + 1)

rejectAllPromises(S) == RejectEach(S, 1)

loadAllVariablesData(S) ==
    IF ~S.timeValid
    THEN S
    ELSE LoadEach([S EXCEPT !.isPending = [v \in Vars |-> TRUE]], 1, Vars)

\* The watcher of props.selectedTimeDate.
onTimeChanged(S, tv) ==
    loadAllVariablesData(rejectAllPromises(
        [S EXCEPT !.timeValid = tv,
                  !.loads = [k \in Slots |->
                               IF @[k] = NoLoad
                               THEN NoLoad
                               ELSE [@[k] EXCEPT !.stale = TRUE]]]))

----------------------------------------------------------------------------
\* Initial state

\* props.initialVariableValues.value: no initial value is given.
initialVariableValues == [n \in Names |-> Undefined]

\* a ?? b
Coalesce(a, b) == IF a \in {Null, Undefined} THEN b ELSE a

\* initialValue of the variable c when the initial values iv are supplied.
InitialValueFrom(iv, c) ==
    LET given == Coalesce(iv[c.name], Null) IN
    IF c.multiSelect /\ ~given.arr THEN Arr(given.items) ELSE given

InitialValue(c) == InitialValueFrom(initialVariableValues, c)

\* Faulty variant: the initial value is given to a variable of any type.
InitialValueForAnyType(iv, c) == InitialValueFrom(iv, c)

\* variableData.value: a constant keeps the value of its configuration.
InitialVariableValue(iv, c) ==
    CASE c.type = "constant" -> c.value
      [] c.type = "textbox" -> Coalesce(InitialValueFrom(iv, c), c.value)
      [] OTHER -> InitialValueFrom(iv, c)

\* initializeVariablesData
initializeVariablesDataFrom(iv, C, tv) ==
    [timeValid |-> tv,
     value |-> [i \in 1..Len(C) |-> InitialVariableValue(iv, C[i])],
     options |-> [i \in 1..Len(C) |-> C[i].options],
     isLoading |-> [i \in 1..Len(C) |-> FALSE],
     isPending |-> [i \in 1..Len(C) |-> TRUE],
     ivl |-> FALSE,
     old |-> [n \in Names |->
                IF \E i \in 1..Len(C) : C[i].name = n
                THEN InitialValueFrom(
                         iv, C[CHOOSE i \in 1..Len(C) : C[i].name = n])
                ELSE Undefined],
     handle |-> [n \in Names |-> NoHandle],
     loads |-> [k \in Slots |-> NoLoad],
     jobs |-> <<>>, ok |-> TRUE]

initializeVariablesData(C, tv) ==
    initializeVariablesDataFrom(initialVariableValues, C, tv)

\* onMounted
onMounted(C, tv) ==
    loadAllVariablesData(rejectAllPromises(initializeVariablesData(C, tv)))

\* The state a task leaves: the executors that are done are gone, and a
\* handle of theirs that is still stored is the handle of a settled promise.
Leaves(S) ==
    /\ S.ok
    /\ timeValid' = S.timeValid
    /\ value' = S.value
    /\ options' = S.options
    /\ isLoading' = S.isLoading
    /\ isPending' = S.isPending
    /\ ivl' = S.ivl
    /\ old' = S.old
    /\ handle' = [n \in Names |->
                    IF S.handle[n] \in Slots /\ S.loads[S.handle[n]].st = "done"
                    THEN SettledHandle
                    ELSE S.handle[n]]
    /\ loads' = [k \in Slots |->
                   IF S.loads[k].st = "done" THEN NoLoad ELSE S.loads[k]]

Event(op, v, out, prom) ==
    [op |-> op, v |-> v, out |-> out, prom |-> prom]

\* The state after onMounted when the initial values iv are supplied and
\* the backend answers B.
InitBackend(iv, C, B) ==
    \E tv \in BOOLEAN :
        /\ cfg = C
        /\ backend = B
        /\ LET S == Drain(loadAllVariablesData(rejectAllPromises(
                        initializeVariablesDataFrom(iv, C, tv)))) IN
           /\ S.ok
           /\ timeValid = S.timeValid
           /\ value = S.value
           /\ options = S.options
           /\ isLoading = S.isLoading
           /\ isPending = S.isPending
           /\ ivl = S.ivl
           /\ old = S.old
           /\ handle = S.handle
           /\ loads = S.loads
           /\ events = 0
           /\ edited = [n \in Names |-> Undefined]
           /\ last = Event("mount", 0, "none", "none")

InitFrom(iv, C) == InitBackend(iv, C, Free)

InitWith(C) == InitFrom(initialVariableValues, C)

\* initializeVariablesData in the watcher of props.variablesConfig: the
\* variables are made anew; oldVariablesData and currentlyExecutingPromises
\* are not reset, and the executors that are awaiting keep the objects of
\* the list that was replaced.
reinitializeVariablesData(S, C) ==
    LET S0 == initializeVariablesData(C, S.timeValid) IN
    [S0 EXCEPT
       !.old = [n \in Names |->
                  IF \E i \in 1..Len(C) : C[i].name = n
                  THEN S0.old[n] ELSE S.old[n]],
       !.handle = S.handle,
       !.loads = [k \in Slots |->
                    IF S.loads[k] = NoLoad
                    THEN NoLoad
                    ELSE [S.loads[k] EXCEPT !.detached = TRUE]]]

\* The watcher of props.variablesConfig.
onConfigChanged(S, C) ==
    loadAllVariablesData(rejectAllPromises(reinitializeVariablesData(S, C)))

Init == InitWith(PairConfig)

----------------------------------------------------------------------------
\* Actions

\* The selections of a multi-select: the option values at the indices I.
Pick(vals, I) ==
    LET idx == SelectSeq([k \in 1..Len(vals) |-> k], LAMBDA k : k \in I)
    IN  [k \in 1..Len(idx) |-> vals[idx[k]]]

\* What the user can select in the selector of variable i.
UserChoices(i) ==
    LET vals == OptionValues(options[i]) IN
    IF cfg[i].type \notin {"query_values", "custom"}
    THEN {}
    ELSE IF cfg[i].multiSelect
         THEN {Arr(Pick(vals, I)) : I \in SUBSET (1..Len(vals)) \ {{}}}
         ELSE {Scalar(vals[k]) : k \in 1..Len(vals)}

\* The user selects nv in the selector of variable i.
ResolveOne(i, nv) ==
    /\ events < MaxEvents
    /\ LET S == Drain(onVariablesValueUpdated(State, i, nv)) IN
       /\ Leaves(S)
       /\ last' = Event("resolveOne", i,
                        IF MarkingOverflows(i) THEN "overflow" ELSE "none",
                        "none")
    /\ events' = events + 1
    /\ edited' = [edited EXCEPT ![NameOf(i)] = nv]
    /\ UNCHANGED <<cfg, backend>>

\* props.selectedTimeDate is replaced.
TimeChange(tv) ==
    /\ events < MaxEvents
    /\ LET S == Drain(onTimeChanged(State, tv)) IN
       /\ Leaves(S)
       /\ last' = Event("timeChange", 0, "none", "none")
    /\ events' = events + 1
    /\ UNCHANGED <<cfg, backend, edited>>

\* addLabelsToSQlQuery returns to the executor in slot id.
LabelsDone(id, throws) ==
    /\ loads[id].st = "labels"
    /\ throws => ~timeValid
    /\ LET S == Drain(AfterLabels(State, id, throws)) IN
       /\ Leaves(S)
       /\ last' = Event("labelsDone", loads[id].v,
                        IF throws THEN "fail" ELSE "none", loads[id].prom)
    /\ UNCHANGED <<cfg, backend, events, edited>>

\* streamService.fieldValues returns to the executor in slot id.
FetchDone(id, out) ==
    /\ loads[id].st = "fetch"
    /\ backend # Free => out = backend[NameOf(loads[id].v)]
    /\ LET S == Drain(AfterFetch(State, id, out)) IN
       /\ Leaves(S)
       /\ last' = Event("fetchDone", loads[id].v, out.kind, loads[id].prom)
    /\ UNCHANGED <<cfg, backend, events, edited>>

\* props.variablesConfig is replaced by a list of the same content.
ConfigChange ==
    /\ events < MaxEvents
    /\ LET S == Drain(onConfigChanged(State, cfg)) IN
       /\ Leaves(S)
       /\ last' = Event("configChange", 0, "none", "none")
    /\ events' = events + 1
    /\ edited' = [n \in Names |-> Undefined]
    /\ UNCHANGED <<cfg, backend>>

Next ==
    \/ \E i \in Vars : \E nv \in UserChoices(i) : ResolveOne(i, nv)
    \/ \E tv \in BOOLEAN : TimeChange(tv)
    \/ \E id \in Slots : \E throws \in BOOLEAN : LabelsDone(id, throws)
    \/ \E id \in Slots : \E out \in Outcomes : FetchDone(id, out)

Spec == Init /\ [][Next]_vars

InitChain == InitWith(ChainConfig)
SpecChain == InitChain /\ [][Next]_vars

\* props.initialVariableValues.value[name] as it may be supplied for the
\* constant: nothing, a scalar or a list.
SuppliedValues == {Undefined, Scalar("x"), Arr(<<"x", "y">>)}

InitConstant ==
    \E g \in SuppliedValues :
        InitFrom([n \in Names |-> IF n = "c" THEN g ELSE Undefined],
                 ConstantConfig)
SpecConstant == InitConstant /\ [][Next]_vars

InitFork == InitWith(ForkConfig)
SpecFork == InitFork /\ [][Next]_vars

InitJoin == InitWith(JoinConfig)
SpecJoin == InitJoin /\ [][Next]_vars

InitCycle == InitWith(CycleConfig)
SpecCycle == InitCycle /\ [][Next]_vars

\* The backends that answer every fetch of a variable of C in one way.
Backends(C) ==
    {[n \in Names |->
        IF \E i \in 1..Len(C) : C[i].name = n
        THEN CHOOSE o \in Outcomes :
                 \E i \in 1..Len(C) : C[i].name = n /\ o.kind = f[i]
        ELSE [kind |-> "fail", opts |-> <<>>]] :
     f \in [1..Len(C) -> {"fail", "empty", "hits"}]}

\* Mounted on a fork or on a join, with a fixed backend.
InitOrder ==
    \E C \in {ForkConfig, JoinConfig} : \E B \in Backends(C) :
        InitBackend(initialVariableValues, C, B)

SpecOrder == InitOrder /\ [][Next]_vars

NextReset == Next \/ ConfigChange
SpecReset == Init /\ [][NextReset]_vars

----------------------------------------------------------------------------
\* Vocabulary of the claims

\* The executor in slot k ends in this step (its fetch returned or failed).
Completes(k) ==
    /\ loads[k] # NoLoad
    /\ loads'[k] = NoLoad \/ loads'[k].v # loads[k].v

\* A load of variable i is started in this step.
Starts(i) == \E k \in Slots : /\ loads'[k] # NoLoad
                              /\ loads'[k].v = i
                              /\ loads[k] = NoLoad \/ loads[k].v # i

\* The loads of variable i whose promise is neither settled nor rejected.
InFlight(i) == {k \in Slots : loads[k].v = i /\ loads[k].prom = "pending"}

Resolved(i) == ~isLoading[i] /\ ~isPending[i]

\* The transitive descendants of variable i in the dependency graph.
RECURSIVE Closure(_)
Closure(set) ==
    LET more == set \cup {c \in Vars : \E p \in set : NameOf(p) \in cfg[c].refs}
    IN  IF more = set THEN set ELSE Closure(more)

Descendants(i) == Closure({c \in Vars : NameOf(i) \in cfg[c].refs})

----------------------------------------------------------------------------
\* Claims

\* C1: when the fetch of a load returns that was cancelled by a newer load
\* of the same variable, the options and the value of the variable stay
\* exactly as they were.
C1_StaleLoadLeavesValueAndOptions ==
    [][\A k \in Slots :
          (Completes(k) /\ loads[k].prom = "cancelled" /\ loads[k].superseded)
          => /\ value'[loads[k].v] = value[loads[k].v]
             /\ options'[loads[k].v] = options[loads[k].v]]_vars

\* C2: the completion of a cancelled load is discarded by the commit step:
\* it clears no isPending, leaves the old-value snapshot as it is, and has
\* none of the effects of a load attempt (no handle is replaced, no load is
\* started or cancelled).
C2_CancelledLoadNeverCommits ==
    [][\A k \in Slots :
          (Completes(k) /\ loads[k].prom = "cancelled")
          => /\ \A u \in Vars : isPending[u] => isPending'[u]
             /\ old' = old
             /\ handle' = handle
             /\ \A j \in Slots \ {k} : loads'[j] = loads[j]]_vars

\* C2, witness: the fetch of a cancelled load has returned hits for a
\* variable that is still pending.
C2_Witness ==
    /\ last.op = "fetchDone"
    /\ last.prom = "cancelled"
    /\ last.out = "hits"
    /\ isPending[last.v]

\* C3: every variable has at most one in-flight load.
C3_AtMostOneInFlight ==
    \A i \in Vars : Cardinality(InFlight(i)) <= 1

\* C4: a load that is not the most recently started one of its variable
\* never commits.
C4_OnlyLatestLoadCommits ==
    [][\A k \in Slots :
          (Completes(k) /\ loads[k].prom = "pending")
          => ~loads[k].superseded]_vars

\* C5: whenever a load of a variable starts (isLoading is set), all the
\* parents of the variable are Resolved.
C5_StartsOnlyWithParentsResolved ==
    [][\A i \in Vars :
          (Starts(i) \/ (~isLoading[i] /\ isLoading'[i]))
          => \A p \in parentVariables(i) : ~isLoading'[p] /\ ~isPending'[p]]_vars

\* C5, witness: the parent's load has committed and, in the same task, a
\* load of its child has started.
C5_Witness ==
    /\ last.op = "fetchDone"
    /\ last.prom = "pending"
    /\ Resolved(last.v)
    /\ \E k \in Slots : /\ loads[k].st = "labels"
                        /\ loads[k].v \in childVariables(last.v)
                        /\ isLoading[loads[k].v]

\* C6: if a parent of a variable is Loading or Pending, the variable is
\* Pending.
C6_PropagationInvariant ==
    \A i \in Vars : \A p \in parentVariables(i) :
        (isLoading[p] \/ isPending[p]) => isPending[i]

\* C7: after the user edits variable P, every transitive descendant of P is
\* Pending: the marking step marks each of them, and the load attempts of
\* the same task leave them Pending.
C7_EditMarksAllDescendants ==
    [][last'.op = "resolveOne"
       => \A d \in Descendants(last'.v) :
             /\ setLoadingStateToAllChildNode(isPending, last'.v)[d]
             /\ isPending'[d]]_vars

\* C7, witness: a was edited, and c, which references a only through b
\* and has been loaded before, is Pending.
C7_Witness ==
    /\ last.op = "resolveOne"
    /\ NameOf(last.v) = "a"
    /\ \E c \in Descendants(last.v) \ childVariables(last.v) :
          /\ isPending[c]
          /\ options[c] # <<>>
          /\ old[NameOf(c)] = value[c]

\* C8: a user edit of P leaves the value, the options and isPending of
\* every variable that is neither P nor a descendant of P unchanged.
C8_EditLeavesUnrelatedVariables ==
    [][last'.op = "resolveOne"
       => \A u \in Vars \ ({last'.v} \cup Descendants(last'.v)) :
             /\ value'[u] = value[u]
             /\ options'[u] = options[u]
             /\ isPending'[u] = isPending[u]]_vars

\* C8, witness: a was edited, its child b is Pending, and the unrelated d
\* is still Resolved with the options and the value it had.
C8_Witness ==
    /\ last.op = "resolveOne"
    /\ NameOf(last.v) = "a"
    /\ \E b \in Descendants(last.v) : isPending[b]
    /\ \E d \in Vars \ ({last.v} \cup Descendants(last.v)) :
          Resolved(d) /\ options[d] # <<>>

C10_EmptyValueOfOwnShape ==
    [][(/\ last'.op = "fetchDone"
        /\ last'.out \in {"fail", "empty"}
        /\ last'.prom = "pending")
       => /\ options'[last'.v] = <<>>
          /\ ~isLoading'[last'.v]
          /\ value'[last'.v] =
                IF cfg[last'.v].multiSelect THEN Arr(<<>>) ELSE Null]_vars

\* C11: in every state, the value of a multi-select variable is a list and
\* the value of a single-select variable is a scalar or null.
C11_ValueShapeMatchesMultiSelect ==
    \A i \in Vars :
        cfg[i].type \in {"query_values", "custom"}
            => value[i].arr = cfg[i].multiSelect

\* C12: in every state, variablesData.isVariablesLoading is true exactly
\* when some variable is loading or pending.
C12_VariablesLoadingIsAnyLoadingOrPending ==
    ivl <=> \E i \in Vars : isLoading[i] \/ isPending[i]

\* C13: when resolveAll (mount, time change) or resolveOne (an edit) is
\* invoked under an invalid time range, no variable begins loading, no fetch
\* is issued and no variable's isPending goes from true to false.
C13_InvalidTimeCycleIsNoOp ==
    [][(events' = events + 1 /\ ~timeValid')
       => /\ \A i \in Vars : /\ ~Starts(i)
                             /\ isLoading'[i] => isLoading[i]
                             /\ isPending[i] => isPending'[i]
          /\ \A k \in Slots : loads'[k].st = "fetch" => loads[k].st = "fetch"
      ]_vars

\* C13, witness: an edit was made under an invalid time range, and a variable
\* whose parents are all resolved is still pending and not loading.
C13_Witness ==
    /\ last.op = "resolveOne"
    /\ ~timeValid
    /\ \E i \in Vars : /\ isPending[i]
                       /\ ~isLoading[i]
                       /\ \A p \in parentVariables(i) : Resolved(p)

\* No executor is running and no promise reaction is queued.
Settled == \A k \in Slots : loads[k] = NoLoad

\* A variable that is pending and not loading although nothing holds it
\* back: all its parents are resolved.
Stuck(i) ==
    /\ ~isLoading[i]
    /\ isPending[i]
    /\ \A p \in parentVariables(i) : Resolved(p)

\* C14 as stated: once the cycle has settled, no variable is pending and not
\* loading while all of its parents are resolved.
C14_NoStuckVariableAtRest ==
    Settled => \A i \in Vars : ~Stuck(i)

\* C14, amended: once the cycle has settled under a valid time range, no
\* variable is pending and not loading while all of its parents are resolved.
C14_NoStuckVariableAtRestWhenTimeValid ==
    (Settled /\ timeValid) => \A i \in Vars : ~Stuck(i)

\* C14, witness: after an edit or a time change under a valid time range the
\* load of a dependent variable was the last to end, and every variable is
\* resolved.
C14_Witness ==
    /\ Settled
    /\ timeValid
    /\ events > 0
    /\ last.op = "fetchDone"
    /\ parentVariables(last.v) # {}
    /\ \A i \in Vars : Resolved(i)

----------------------------------------------------------------------------
\* Fairness: a call that was issued returns. addLabelsToSQlQuery and
\* streamService.fieldValues are awaited by the executor, and the event loop
\* runs the continuation once the awaited promise settles.
LabelsReturn == \E id \in Slots : \E throws \in BOOLEAN : LabelsDone(id, throws)

FetchReturn == \E id \in Slots : \E out \in Outcomes : FetchDone(id, out)

FetchPending == \E id \in Slots : loads[id].st = "fetch"

\* The continuation of a fetch that is under way can always run: FetchPending
\* is ENABLED <<FetchReturn>>_vars (the step empties or refills the slot).
CanReturn ==
    \A id \in Slots :
        loads[id].st = "fetch"
            => \A out \in Outcomes : Drain(AfterFetch(State, id, out)).ok

\* Weak fairness of LabelsReturn and of FetchReturn; the latter is spelled
\* out with FetchPending for ENABLED <<FetchReturn>>_vars.
Fairness ==
    /\ WF_vars(LabelsReturn)
    /\ []<>(~FetchPending) \/ []<><<FetchReturn>>_vars

SpecFair == Spec /\ Fairness

\* C15: if every issued fetch eventually returns or fails, the engine ends
\* up, whatever edits, time changes, cancellations and fetch failures occur,
\* in a settled state in which no variable is loading.
C15_EventuallySettledAndNotLoading ==
    <>[](Settled /\ \A i \in Vars : ~isLoading[i])

\* C15, witness: after a time change cancelled a load and a later fetch
\* failed, nothing is in flight and no variable is loading.
C15_Witness ==
    /\ Settled
    /\ events = MaxEvents
    /\ last.op = "fetchDone"
    /\ last.out = "fail"
    /\ \A i \in Vars : ~isLoading[i]

\* C16: a load whose query still holds the token of a variable that is not
\* resolved when the substitution step runs issues no fetch: the attempt
\* ends there, leaving the variable pending and not loading.
C16_UnresolvedTokenIssuesNoFetch ==
    [][\A k \in Slots :
          (loads[k].st = "labels" /\ HasUnresolvedToken(State, loads[k].v))
              => loads'[k].st # "fetch"]_vars

----------------------------------------------------------------------------
\* Reconciliation on its own: one variable, whose kind, flags, option list
\* and old selection are drawn from bounded sets; the step reconciles its
\* selection as the load of the variable does.

\* Length of the option lists and of the old selections.
MaxLen == 2

\* Option values; "" is the value shown as <blank>.
Atoms == {"x", "y", ""}

Lists == UNION {[1..k -> Atoms] : k \in 0..MaxLen}

\* customMultiSelectValue of the configuration.
CustomLists == {<<>>, <<"y">>, <<"", "y">>, <<"y", "x">>}

\* selectAllValueForMultiSelect with its custom list.
Policies ==
    {[selectAll |-> p, custom |-> <<>>] : p \in {"none", "all"}}
    \cup {[selectAll |-> "custom", custom |-> l] : l \in CustomLists}

\* The options of a query_values variable are built from the hits and carry
\* no selected flag; those of a custom variable are configured with one.
OptionLists(type) ==
    IF type = "query_values"
    THEN {[k \in 1..Len(s) |-> Opt(s[k])] : s \in Lists}
    ELSE UNION {{[k \in 1..Len(s) |-> [value |-> s[k], selected |-> f[k]]] :
                    f \in [1..Len(s) -> BOOLEAN]} : s \in Lists}

\* oldVariablesData[name]: null, a scalar or a list.
OldValues ==
    {Null} \cup {Scalar(a) : a \in Atoms} \cup {Arr(s) : s \in Lists}

SingleVar(type, multi, pol, opts) ==
    [name |-> "a", type |-> type, multiSelect |-> multi,
     selectAll |-> pol.selectAll, custom |-> pol.custom, refs |-> {},
     options |-> IF type = "custom" THEN opts ELSE <<>>, value |-> Null]

InitRecon ==
    \E type \in {"query_values", "custom"} : \E multi \in BOOLEAN :
    \E pol \in Policies : \E opts \in OptionLists(type) : \E o \in OldValues :
        /\ cfg = << SingleVar(type, multi, pol, opts) >>
        /\ backend = Free
        /\ timeValid = TRUE
        /\ value = << o >>
        /\ options = << opts >>
        /\ isLoading = << TRUE >>
        /\ isPending = << TRUE >>
        /\ ivl = FALSE
        /\ old = [n \in Names |-> IF n = "a" THEN o ELSE Undefined]
        /\ handle = [n \in Names |-> NoHandle]
        /\ loads = [k \in Slots |-> NoLoad]
        /\ events = 0
        /\ edited = [n \in Names |-> Undefined]
        /\ last = Event("mount", 0, "none", "none")

\* The hits branch of case "query_values" for the fetched list options[1].
ReconcileQueryValues ==
    /\ cfg[1].type = "query_values"
    /\ last.op = "mount"
    /\ LET S == FetchHits(State, 1, options[1]) IN
       /\ value' = S.value
       /\ options' = S.options
       /\ last' = Event("reconcile", 1,
                        IF QueryValuesLogicThrows(
                               cfg[1], options[1],
                               OldVariableSelectedValues(old[NameOf(1)]))
                        THEN "fail" ELSE "hits", "none")
    /\ UNCHANGED <<cfg, backend, timeValid, isLoading, isPending, ivl, old,
                   handle, loads, events, edited>>

\* case "custom".
ReconcileCustom ==
    /\ cfg[1].type = "custom"
    /\ last.op = "mount"
    /\ value' = [value EXCEPT ![1] =
                    handleCustomVariablesLogic(
                        cfg[1], options[1],
                        OldVariableSelectedValues(old[NameOf(1)]))]
    /\ last' = Event("reconcile", 1, "hits", "none")
    /\ UNCHANGED <<cfg, backend, timeValid, options, isLoading, isPending,
                   ivl, old, handle, loads, events, edited>>

NextRecon == ReconcileQueryValues \/ ReconcileCustom

SpecRecon == InitRecon /\ [][NextRecon]_vars

----------------------------------------------------------------------------
\* Vocabulary of the reconciliation claims

\* The state after the reconciliation of the variable.
Reconciled == last.op = "reconcile" /\ last.out = "hits"

\* The old selection of the variable, as a sequence of values.
OldSelection ==
    LET o == old[NameOf(1)] IN
    IF o.arr THEN o.items ELSE IF o = Null THEN <<>> ELSE <<o.items[1]>>

\* The values of the options that occur in the sequence s, in option order.
OptionsIn(s) ==
    SelectSeq(OptionValues(options[1]), LAMBDA x : InSeq(x, s))

\* The values of the sequence s that are the value of some option, in the
\* order of s.
AmongOptions(s) ==
    SelectSeq(s, LAMBDA x : InSeq(x, OptionValues(options[1])))

C18_SingleSelectKeepsSurvivingSelection ==
    (/\ Reconciled
     /\ ~cfg[1].multiSelect
     /\ AmongOptions(OldSelection) # <<>>)
    => value[1] = Scalar(AmongOptions(OldSelection)[1])

\* The default selection of a single-select query_values variable as the
\* claim C19 states it: the first custom value that is the value of an option.
FirstMatchingCustomValue ==
    IF options[1] = <<>>
    THEN Null
    ELSE IF cfg[1].selectAll = "custom" /\ AmongOptions(cfg[1].custom) # <<>>
         THEN Scalar(AmongOptions(cfg[1].custom)[1])
         ELSE Scalar(options[1][1].value)

\* The same with only the first value of the custom list looked at.
FirstCustomValueIfMatching ==
    IF options[1] = <<>>
    THEN Null
    ELSE IF /\ cfg[1].selectAll = "custom"
            /\ cfg[1].custom # <<>>
            /\ InSeq(cfg[1].custom[1], OptionValues(options[1]))
         THEN Scalar(cfg[1].custom[1])
         ELSE Scalar(options[1][1].value)

\* C19 as stated: single-select query_values variable, no old value among the
\* options: the selection is null without options; under policy "custom" the
\* first value of the custom list that matches an option, else the first
\* option's value; under any other policy the first option's value.
C19_SingleSelectDefaultFirstMatchingCustom ==
    (/\ Reconciled
     /\ cfg[1].type = "query_values"
     /\ ~cfg[1].multiSelect
     /\ AmongOptions(OldSelection) = <<>>)
    => value[1] = FirstMatchingCustomValue

\* C19, amended: under policy "custom" the selection is the first value of
\* the custom list if that value matches an option, else the first option's
\* value.
C19_SingleSelectDefaultFirstCustomValue ==
    (/\ Reconciled
     /\ cfg[1].type = "query_values"
     /\ ~cfg[1].multiSelect
     /\ AmongOptions(OldSelection) = <<>>)
    => value[1] = FirstCustomValueIfMatching

\* C19, witness: policy "custom", the first custom value matches no option
\* and the second does; the first option is selected.
C19_Witness ==
    /\ Reconciled
    /\ cfg[1].type = "query_values"
    /\ ~cfg[1].multiSelect
    /\ AmongOptions(OldSelection) = <<>>
    /\ cfg[1].selectAll = "custom"
    /\ Len(cfg[1].custom) = 2
    /\ ~InSeq(cfg[1].custom[1], OptionValues(options[1]))
    /\ InSeq(cfg[1].custom[2], OptionValues(options[1]))
    /\ options[1][1].value # cfg[1].custom[2]
    /\ value[1] = Scalar(options[1][1].value)

\* What a query_values variable with the configuration, options and old
\* selection of the variable would select.
AsQueryValues ==
    handleQueryValuesLogic(cfg[1], options[1],
                           OldVariableSelectedValues(old[NameOf(1)]))

\* Part of the old selection is kept: for a multi-select some option's value
\* occurs in it, for a single-select its first value is a non-blank value of
\* an option.
OldSelectionKept ==
    LET oldSel == OldVariableSelectedValues(old[NameOf(1)]) IN
    IF cfg[1].multiSelect
    THEN OptionsIn(oldSel) # <<>>
    ELSE Truthy(Scalar(FindValue(options[1], FirstOf(oldSel))))

\* The values of the options that are flagged as selected.
FlaggedValues ==
    OptionValues(SelectSeq(options[1], LAMBDA o : o.selected))

\* C20 as stated: reconciling a custom variable yields the selection that
\* reconciling a query_values variable with the same options, old selection,
\* multiSelect flag, policy and custom list yields.
C20_CustomReconcilesAsQueryValues ==
    (/\ Reconciled
     /\ cfg[1].type = "custom"
     /\ ~QueryValuesLogicThrows(cfg[1], options[1],
                                OldVariableSelectedValues(old[NameOf(1)])))
    => value[1] = AsQueryValues

\* C20, amended: a custom variable selects what a query_values variable
\* would when part of the old selection is kept; otherwise it selects the
\* options flagged as selected (all of them for a multi-select, the first
\* for a single-select), or the first option when none is flagged, whatever
\* the policy and the custom list are; a single-select without options gets
\* null.
C20_CustomKeepsAlikeDefaultsByFlags ==
    (Reconciled /\ cfg[1].type = "custom")
    => IF OldSelectionKept
       THEN value[1] = AsQueryValues
       ELSE value[1] =
              IF cfg[1].multiSelect
              THEN Arr(IF FlaggedValues # <<>>
                       THEN FlaggedValues
                       ELSE <<FirstOf(OptionValues(options[1]))>>)
              ELSE IF options[1] = <<>>
                   THEN Null
                   ELSE Scalar(IF FlaggedValues # <<>>
                               THEN FlaggedValues[1]
                               ELSE options[1][1].value)

\* C20, witness: a multi-select custom variable under policy "all" with two
\* options, the second flagged, and no old selection: it selects the flagged
\* option where a query_values variable would select both.
C20_Witness ==
    /\ Reconciled
    /\ cfg[1].type = "custom"
    /\ cfg[1].multiSelect
    /\ cfg[1].selectAll = "all"
    /\ ~OldSelectionKept
    /\ Len(options[1]) = 2
    /\ options[1][1].value # options[1][2].value
    /\ ~options[1][1].selected
    /\ options[1][2].selected
    /\ value[1] = Arr(<<options[1][2].value>>)
    /\ AsQueryValues = Arr(OptionValues(options[1]))

\* C21: a variable without parents whose options are not empty and whose
\* policy is "all" gets a selection that is not empty, whatever its old
\* selection: a non-empty list if multi-select, a scalar other than null if
\* single-select.
C21_PolicyAllSelectsSomething ==
    (/\ Reconciled
     /\ cfg[1].selectAll = "all"
     /\ options[1] # <<>>)
    => IF cfg[1].multiSelect
       THEN value[1].arr /\ Len(value[1].items) > 0
       ELSE ~value[1].arr /\ value[1].items[1] \notin {NULL, UNDEF}

\* C21, witness: a multi-select query_values variable under policy "all",
\* none of whose old values is among the options, selects every option.
C21_Witness ==
    /\ Reconciled
    /\ cfg[1].type = "query_values"
    /\ cfg[1].multiSelect
    /\ cfg[1].selectAll = "all"
    /\ OldSelection # <<>>
    /\ AmongOptions(OldSelection) = <<>>
    /\ Len(options[1]) = MaxLen
    /\ value[1] = Arr(OptionValues(options[1]))

\* The set of the elements of the sequence s.
Range(s) == {s[k] : k \in 1..Len(s)}

\* C22: a multi-select custom variable whose old selection is a non-empty
\* list of values that are all values of options selects exactly those
\* values, in the order of the options, whatever the order of the old
\* selection and whatever the selected flags of the options are.
C22_CustomRoundTrip ==
    (/\ Reconciled
     /\ cfg[1].type = "custom"
     /\ cfg[1].multiSelect
     /\ old[NameOf(1)].arr
     /\ OldSelection # <<>>
     /\ Range(OldSelection) \subseteq Range(OptionValues(options[1])))
    => /\ value[1].arr
       /\ Range(value[1].items) = Range(OldSelection)
       /\ value[1].items = OptionsIn(value[1].items)

\* C22, witness: the old selection lists two options in the reverse of their
\* order, and some option is flagged as selected; the selection
\* is the two in option order.
C22_Witness ==
    /\ Reconciled
    /\ cfg[1].type = "custom"
    /\ cfg[1].multiSelect
    /\ Len(options[1]) = MaxLen
    /\ options[1][1].value # options[1][MaxLen].value
    /\ OldSelection = <<options[1][MaxLen].value, options[1][1].value>>
    /\ \E k \in 1..Len(options[1]) : options[1][k].selected
    /\ value[1].items[1] = options[1][1].value
    /\ Range(value[1].items) = Range(OldSelection)

\* C23: the pair of the scenario after mount under a valid time range, with
\* no edit and no time change: variable 1 (single-select, no parents, no old
\* value) resolves to the first fetched option; variable 2, whose filter
\* holds the token of variable 1, is pending and has no load, hence no fetch,
\* while variable 1 is not resolved; and the query of the fetch of variable 2
\* holds the resolved value of variable 1 in place of the token.
C23_ParentChildScenario ==
    (events = 0 /\ timeValid)
    => /\ ~Resolved(1) => (isPending[2] /\ \A k \in Slots : loads[k].v # 2)
       /\ (Resolved(1) /\ options[1] # <<>>)
             => value[1] = Scalar(options[1][1].value)
       /\ \A k \in Slots :
             (loads[k].v = 2 /\ loads[k].st = "fetch")
                 => /\ Resolved(1)
                    /\ loads[k].q = {<<NameOf(1), value[1]>>}

\* C23, witness: variable 1 resolved to x, the first of the fetched options
\* [x, y], and the fetch of variable 2 is under way with x in its query.
C23_Witness ==
    /\ events = 0
    /\ OptionValues(options[1]) = <<"x", "y">>
    /\ value[1] = Scalar("x")
    /\ \E k \in Slots : /\ loads[k].v = 2
                        /\ loads[k].st = "fetch"
                        /\ loads[k].q = {<<"a", Scalar("x")>>}

\* C24: the value of a constant is the value of its configuration in every
\* state, whatever initial value was supplied for it and whatever edits, time
\* changes, load completions, failures and cancellations occur, and no
\* executor, hence no fetch, ever runs for it.
C24_ConstantKeepsConfiguredValue ==
    \A i \in Vars :
        cfg[i].type = "constant"
            => /\ value[i] = cfg[i].value
               /\ \A k \in Slots : loads[k].v # i

\* C24, witness: the initial value x was supplied for the constant, whose
\* configured value is k; after a time change the constant still holds k.
C24_Witness ==
    /\ cfg[1].type = "constant"
    /\ old[NameOf(1)] = Scalar("x")
    /\ value[1] = Scalar("k")
    /\ last.op = "timeChange"

\* The load in slot k is awaiting addLabelsToSQlQuery or the fetch.
Awaiting(L) == L.st \in {"labels", "fetch"}

\* The executor in slot k, started before the last replacement of the
\* configuration list, returns from its await in this step.
DetachedReturns(k) ==
    /\ loads[k].detached
    /\ Awaiting(loads[k])
    /\ loads'[k] = NoLoad \/ loads'[k].st # loads[k].st
    /\ last'.op \in {"labelsDone", "fetchDone"}

\* After the replacement, a variable whose new load is awaiting is as that
\* load left it.
FreshAfterReset ==
    last'.op = "configChange" =>
        \A k \in Slots :
            (Awaiting(loads'[k]) /\ ~loads'[k].detached
                                 /\ loads'[k].prom = "pending")
            => /\ isLoading'[loads'[k].v]
               /\ handle'[NameOf(loads'[k].v)] = k

\* The return of an executor of the previous configuration changes no
\* variable of the new one.
DetachedLoadsAreInert ==
    \A k \in Slots :
        DetachedReturns(k)
        => UNCHANGED <<value, options, isLoading, isPending, handle>>

\* C25: replacing the configuration list is a full reset: no load started
\* under the previous configuration changes the value, options, isLoading,
\* isPending or cancellation handle of a variable of the new configuration,
\* neither when its cancellation is processed nor when its fetch returns.
C25_ConfigReplacementIsFullReset ==
    [][FreshAfterReset /\ DetachedLoadsAreInert]_vars

\* The executor of a load of variable i ends in this step with resolve(true)
\* on a promise that is pending: its .then handler runs with res = true.
Commits(i) ==
    /\ last'.v = i
    /\ last'.prom = "pending"
    /\ \/ last'.op = "fetchDone"
       \/ /\ last'.op = "labelsDone"
          /\ last'.out = "fail"
          /\ ~HasUnresolvedToken(State, i)

\* Variable c is as it was: no load of it was attempted in this step.
Untouched(c) ==
    /\ ~Starts(c)
    /\ UNCHANGED <<value[c], options[c], isLoading[c], isPending[c],
                   handle[NameOf(c)]>>

\* C26: the commit of a resolved variable clears its isLoading and isPending,
\* records its value in the old-value snapshot, and attempts a load of each
\* direct child and of no other variable; a child begins loading only if
\* all of its parents are resolved.
C26_CommitStep ==
    [][\A i \in Vars :
         Commits(i) =>
           /\ ~isLoading'[i]
           /\ ~isPending'[i]
           /\ old'[NameOf(i)] = value'[i]
           /\ \A c \in childVariables(i) :
                  Starts(c) <=>
                      /\ isPending[c]
                      /\ timeValid
                      /\ \A p \in parentVariables(c) :
                             ~isLoading'[p] /\ ~isPending'[p]
           /\ \A c \in Vars \ (childVariables(i) \cup {i}) : Untouched(c)
      ]_vars

\* The second parent of c commits while the first one is resolved: c begins
\* to load.
C26_Witness ==
    /\ last.op = "fetchDone"
    /\ last.prom = "pending"
    /\ last.v = 2
    /\ Resolved(1)
    /\ Resolved(2)
    /\ old[NameOf(2)] = value[2]
    /\ value[2] \notin {Null, Undefined}
    /\ isLoading[3]
    /\ \E k \in Slots : loads[k].v = 3 /\ loads[k].st = "labels"

\* The user edits variable i in this step: onVariablesValueUpdated marks the
\* descendants of i and attempts a load of every variable.
Edits(i) == last'.op = "resolveOne" /\ last'.v = i /\ events' = events + 1

\* Variable c is ineligible when onVariablesValueUpdated(i) attempts its load.
IneligibleAtEdit(i, c) ==
    \/ ~timeValid
    \/ ~(isPending[c] \/ c \in Descendants(i))
    \/ \E p \in parentVariables(c) :
           isLoading[p] \/ isPending[p] \/ p \in Descendants(i)

\* C27: a load attempt on an ineligible variable changes no value, options
\* or isLoading and does not cancel a load that is in flight.
C27_IneligibleAttemptIsNoOp ==
    [][\A i \in Vars : \A c \in Vars \ {i} :
         (Edits(i) /\ IneligibleAtEdit(i, c)) =>
            /\ UNCHANGED <<value[c], options[c], isLoading[c]>>
            /\ \A k \in InFlight(c) : loads'[k] = loads[k]
      ]_vars

SpecCycleFair == SpecCycle /\ Fairness

\* Variable i lies on a reference cycle.
OnCycle(i) == i \in Descendants(i)

\* After loadAllVariablesData under a valid time range, and once the user
\* has stopped editing, the variables on a cycle leave the pending state.
CycleNotLeftPending ==
    (timeValid /\ events = MaxEvents)
        ~> (\A i \in Vars : OnCycle(i) => ~isPending[i])

\* The marking of the descendants ends without exhausting the call stack.
MarkingTerminates ==
    [][\A i \in Vars : Edits(i) => last'.out # "overflow"]_vars

\* C28: a reference cycle is detected and rejected: the variables on the
\* cycle are not left pending for ever after all variables were asked to
\* load, and the marking of the descendants of an edited variable ends.
C28_CycleDetectedAndRejected ==
    CycleNotLeftPending /\ MarkingTerminates

\* The load in slot k is the most recently started load of its variable and
\* its promise is neither settled nor rejected.
NewestPending(k) ==
    /\ loads[k].prom = "pending"
    /\ ~loads[k].superseded
    /\ ~loads[k].detached

\* C29: while a load of a variable is in flight, the reject handle stored
\* under the name of the variable is the one of the most recently started
\* load; the .catch handler of an older load does not clear or replace it.
C29_StoredHandleIsOfNewestLoad ==
    \A k \in Slots :
        (Awaiting(loads[k]) /\ NewestPending(k))
        => handle[NameOf(loads[k].v)] = k

\* C30: whenever the most recently started load of a variable, not
\* cancelled, awaits its fetch, isLoading of the variable is true.
C30_LoadingWhileNewestLoadFetches ==
    \A k \in Slots :
        (loads[k].st = "fetch" /\ NewestPending(k))
        => isLoading[loads[k].v]

\* C31: a load that was started before the time range changed never
\* commits: when it returns it clears no isPending, leaves the old-value
\* snapshot as it is and starts no load of a child.
C31_LoadBeforeTimeChangeNeverCommits ==
    [][\A k \in Slots :
          (Completes(k) /\ loads[k].stale)
          => /\ loads[k].prom # "pending"
             /\ \A u \in Vars : isPending[u] => isPending'[u]
             /\ old' = old
             /\ \A c \in Vars : ~Starts(c)]_vars

\* The loads of S returning one after the other, the one in the lowest slot
\* first, each with the answer of the backend, until none is awaiting.
RECURSIVE RunInSlotOrder(_)
RunInSlotOrder(S) ==
    LET waiting == {k \in Slots : Awaiting(S.loads[k])} IN
    IF waiting = {} \/ ~S.ok
    THEN S
    ELSE LET id == CHOOSE k \in waiting : \A j \in waiting : k <= j
             S1 == IF S.loads[id].st = "labels"
                   THEN AfterLabels(S, id, FALSE)
                   ELSE AfterFetch(S, id, backend[NameOf(S.loads[id].v)])
         IN  RunInSlotOrder(Drain(S1))

\* The state in which the cycle started by onMounted under a valid time
\* range settles when its loads return in slot order.
SettledInSlotOrder ==
    RunInSlotOrder(Drain(onMounted(cfg, TRUE)))

\* C32: the cycle started by onMounted under a valid time range, with a
\* fixed backend and no further event, settles in the same value, options,
\* isLoading, isPending and old-value snapshot whatever the order in which
\* the loads of unrelated variables return.
C32_SettledStateIndependentOfOrder ==
    (Settled /\ events = 0 /\ timeValid /\ backend # Free)
    => LET F == SettledInSlotOrder IN
       /\ value = F.value
       /\ options = F.options
       /\ isLoading = F.isLoading
       /\ isPending = F.isPending
       /\ old = F.old

\* On the fork the load of b, which runs in the lowest slot, is the last
\* to return: the load of the unrelated d returned before it.
C32_Witness ==
    /\ Settled
    /\ events = 0
    /\ timeValid
    /\ backend # Free
    /\ Len(cfg) = 3
    /\ cfg[2].refs = {"a"}
    /\ last.op = "fetchDone"
    /\ last.v = 2
    /\ last.out = "hits"
    /\ options[3] # <<>>

\* A load of variable i that was not cancelled returns hits in this step and
\* commits.
ReResolves(i) ==
    /\ last'.op = "fetchDone"
    /\ last'.v = i
    /\ last'.out = "hits"
    /\ last'.prom = "pending"

\* The values the user selected last for variable i that are among the
\* options just fetched.
EditedStillPresent(i) ==
    Range(edited[NameOf(i)].items) \cap Range(OptionValues(options'[i]))

\* C33: a successful re-resolution of a variable that the user has edited
\* selects the edited value again when the fetched options contain it
\* (single-select), or the edited values that are still among the options
\* (multi-select).
C33_EditRememberedAcrossReResolution ==
    [][\A i \in Vars :
         (ReResolves(i) /\ edited[NameOf(i)] # Undefined
                        /\ EditedStillPresent(i) # {})
         => IF cfg[i].multiSelect
            THEN /\ value'[i].arr
                 /\ Range(value'[i].items) = EditedStillPresent(i)
            ELSE value'[i] = edited[NameOf(i)]
      ]_vars

\* The edit of a resolved variable i leaves i resolved, with the edited
\* value and the options it had, and starts no load of i.
EditLeavesEditedVariable(i) ==
    /\ ~isPending'[i]
    /\ ~isLoading'[i]
    /\ ~Starts(i)
    /\ value'[i] = edited'[NameOf(i)]
    /\ options'[i] = options[i]

\* The resolved variable i was edited in the step before, and in this step
\* an executor of a load of i returns.
ReturnsAfterEdit(i) ==
    /\ last.op = "resolveOne"
    /\ last.v = i
    /\ Resolved(i)
    /\ \E k \in Slots : loads[k].v = i /\ Completes(k)

\* C34: an edit of a resolved variable V does not mark V pending and starts
\* no load of V; loads are started for descendants of V only; in the cycle
\* the edit starts V keeps the edited value and the options it had.
C34_EditReResolvesDescendantsOnly ==
    [][\A i \in Vars :
         /\ (Edits(i) /\ Resolved(i))
            => /\ EditLeavesEditedVariable(i)
               /\ \A c \in Vars : Starts(c) => c \in Descendants(i)
         /\ ReturnsAfterEdit(i)
            => UNCHANGED <<value[i], options[i]>>
      ]_vars

====
